---- MODULE Spec2Model ----
(***************************************************************************)
(* Order fulfillment pipeline of the local farmers marketplace:            *)
(*   POST /api/orders              (order creation, MongoDB transaction)   *)
(*   POST /api/webhooks/stripe     (payment confirmation callback)         *)
(*   GET/PUT /api/orders/[orderId] (order read, status update)             *)
(* Every await of a handler is a step at which other requests interleave.  *)
(***************************************************************************)
EXTENDS Integers, Sequences, FiniteSets, Bags, TLC

\* ------------------------------------------------------------------ bounds
MaxOrders == 2        \* order-creation requests (one order id each)
MaxItems == 2         \* line items of one request
MaxQty == 2           \* largest quantity of one line item
InitStock == 2        \* initial available quantity of product p1
MaxDeliveries == 2    \* deliveries of payment callbacks
MaxPuts == 1          \* status-update requests

\* ---------------------------------------------------------------- universe
Products == {"p1", "p2", "p3"}
UnknownProduct == "p9"
Users == {"u1", "u2", "f1", "f2"}
Buyers == {"u1", "f1"}
PostIds == 1..MaxOrders
WhIds == 1..MaxDeliveries
PutIds == 1..MaxPuts
Quantities == 1..MaxQty
AnyQuantities == -1..MaxQty
None == "none"

\* Product documents: the farmer owning each product and its price.
ProductFarmer == [p1 |-> "f1", p2 |-> "f2", p3 |-> "f1"]
ProductPrice == [p1 |-> 10, p2 |-> 5, p3 |-> 3]
InitQuantity == [p1 |-> InitStock, p2 |-> 1, p3 |-> 1]
\* The role getUserFromRequest reports for each user.
UserRole == [u1 |-> "customer", u2 |-> "customer", f1 |-> "farmer", f2 |-> "farmer"]

VARIABLES
  products,       \* committed Product.quantity of each product
  orders,         \* committed Order documents, by order id
  notifications,  \* bag of Notification documents
  events,         \* bag of real-time events handed to socket.io / Pusher
  intents,        \* payment intents at the gateway: order id -> amount
  io,             \* whether global.io is initialised
  post,           \* POST /api/orders requests
  wh,             \* deliveries to POST /api/webhooks/stripe
  put,            \* PUT /api/orders/[orderId] requests
  get             \* the last answer of GET /api/orders/[orderId]

vars == <<products, orders, notifications, events, intents, io, post, wh, put, get>>

\* --------------------------------------------------------------- helpers
NoFun == <<>>

\* f with key k bound to v (k added when absent)
Put(f, k, v) == [x \in DOMAIN f \cup {k} |-> IF x = k THEN v ELSE f[x]]

\* quantity ordered of product x over a sequence of order items
RECURSIVE QtyOf(_, _)
QtyOf(items, x) ==
  IF items = <<>> THEN 0
  ELSE (IF Head(items).product = x THEN Head(items).quantity ELSE 0)
       + QtyOf(Tail(items), x)

\* s without its duplicates, first occurrences kept (insertion order of a Set)
RECURSIVE Distinct(_)
Distinct(s) ==
  IF s = <<>> THEN <<>>
  ELSE LET r == Distinct(SubSeq(s, 1, Len(s) - 1))
           l == s[Len(s)]
       IN IF \E i \in 1..Len(r) : r[i] = l THEN r ELSE Append(r, l)

Range(s) == {s[i] : i \in 1..Len(s)}

\* Notification.create({user, message, link})
Notification(user, kind, orderId, status) ==
  [user |-> user, kind |-> kind, order |-> orderId, status |-> status]

\* io.to(room).emit(name, payload) / pusher.trigger(channel, name, payload)
Event(via, room, name, orderId, status) ==
  [via |-> via, room |-> room, name |-> name, order |-> orderId, status |-> status]

\* ------------------------------------------------- POST /api/orders state
NoItem == [product |-> None, quantity |-> 0]

\* the request body, as far as validation reads it: items is "missing",
\* "empty" or "items" (a non-empty array), shippingAddress whether it is given
NoBody == [items |-> None, shippingAddress |-> FALSE]

PostIdle ==
  [pc |-> "idle", user |-> None, body |-> NoBody, paymentMethod |-> None, tx |-> "none",
   snap |-> NoFun, writes |-> NoFun, stale |-> {}, item |-> NoItem,
   orderItems |-> <<>>, totalAmount |-> 0, paymentIntent |-> FALSE,
   farmerIds |-> <<>>, error |-> None, resp |-> 0]

\* the value a read inside p's transaction returns for product x
TxRead(r, x) == IF x \in DOMAIN r.writes THEN r.writes[x] ELSE r.snap[x]

\* products written by a transaction that is still open, other than p's
LockedByOthers(p) ==
  UNION {DOMAIN post[q].writes : q \in {q \in PostIds : q # p /\ post[q].tx = "active"}}

LockedByTx == UNION {DOMAIN post[q].writes : q \in {q \in PostIds : post[q].tx = "active"}}

\* a committed write to the products in X makes them stale for every open
\* transaction that has taken its snapshot
MarkStale(pst, X) ==
  [q \in PostIds |->
     IF pst[q].tx = "active" /\ pst[q].snap # NoFun
     THEN [pst[q] EXCEPT !.stale = @ \cup X]
     ELSE pst[q]]

\* ------------------------------------------------------ POST /api/orders
\* product.quantity < item.quantity
InsufficientStock(available, requested) == available < requested

\* a reservation that adds the requested quantity
Reserve_Add(available, requested) == available + requested

\* product.quantity -= item.quantity
Reserve(available, requested) == available - requested

\* a line total that forgets the quantity
LineTotal_NoQuantity(price, quantity) == price

\* product.price * item.quantity
LineTotal(price, quantity) == price * quantity

\* orderItems.push({product, quantity, price})
OrderItem(x, quantity) == [product |-> x, quantity |-> quantity, price |-> ProductPrice[x]]

\* the Order schema's defaults for the fields the handler does not pass
OrderDefaults == [paymentStatus |-> "pending", status |-> "pending"]

\* new Order({customer, items, totalAmount, shippingAddress, paymentMethod, notes})
NewOrder(r) ==
  [customer |-> r.user, items |-> r.orderItems, totalAmount |-> r.totalAmount,
   paymentMethod |-> r.paymentMethod, stripePaymentIntentId |-> r.paymentIntent,
   paymentStatus |-> OrderDefaults.paymentStatus, status |-> OrderDefaults.status]

\* one entry for each item in place of the Set of the products' farmers
FarmerIds_PerItem(items) == [i \in 1..Len(items) |-> ProductFarmer[items[i].product]]

\* new Set(productsInOrder.map(p => p.farmer.toString())), in Product.find order
FarmerIds(items) ==
  LET inOrder == {items[i].product : i \in 1..Len(items)}
      byId == SelectSeq(<<"p1", "p2", "p3">>, LAMBDA x : x \in inOrder)
  IN Distinct([i \in 1..Len(byId) |-> ProductFarmer[byId[i]]])

\* the request is answered: the handler's locals are dropped
PostDone(r, code) ==
  [r EXCEPT !.pc = "done", !.resp = code, !.snap = NoFun, !.writes = NoFun,
            !.stale = {}, !.farmerIds = <<>>]

\* session.abortTransaction(): the transaction's writes are discarded; after
\* commitTransaction the call itself throws and the request ends as a 500
AbortTransaction(r) ==
  IF r.tx = "committed" THEN r ELSE [r EXCEPT !.tx = "aborted", !.writes = NoFun]

\* the status the catch block answers with
CatchStatus(r) ==
  IF r.tx # "committed" /\ r.error \in {"InsufficientStock", "ProductNotFound"}
  THEN 400 ELSE 500

\* throw ... catch (error): abortTransaction, endSession, the error response
PostCatch(r, error) ==
  LET e == [r EXCEPT !.error = error]
  IN PostDone(AbortTransaction(e), CatchStatus(e))

\* validation without the check of the shipping address
Validate_NoAddress(items, shippingAddress) ==
  IF items # "items" THEN "EmptyOrder" ELSE None

\* !items || !Array.isArray(items) || items.length === 0; !shippingAddress:
\* the error the request is rejected with, None when it is valid
Validate(items, shippingAddress) ==
  IF items # "items" THEN "EmptyOrder"
  ELSE IF ~shippingAddress THEN "MissingShippingAddress"
  ELSE None

\* startSession, startTransaction, getUserFromRequest, req.json and validation
POST_Begin(p) ==
  /\ post[p].pc = "idle"
  /\ \A q \in PostIds : q < p => post[q].pc # "idle"
  /\ \E user \in Buyers \cup {None}, items \in {"missing", "empty", "items"},
        shippingAddress \in BOOLEAN, paymentMethod \in {"stripe", "cod"} :
       LET r == [post[p] EXCEPT !.user = user,
                   !.body = [items |-> items, shippingAddress |-> shippingAddress]]
       IN post' = [post EXCEPT ![p] =
            IF user = None
            THEN [PostDone(post[p], 401) EXCEPT !.tx = "aborted",
                                                !.error = "AuthenticationRequired"]
            ELSE IF Validate(items, shippingAddress) # None
            THEN [PostDone(r, 400) EXCEPT !.tx = "aborted",
                                          !.error = Validate(items, shippingAddress)]
            ELSE [r EXCEPT !.pc = "loop", !.tx = "active",
                           !.paymentMethod = paymentMethod]]
  /\ UNCHANGED <<products, orders, notifications, events, intents, io, wh, put, get>>

\* for (const item of items): Product.findById(item.product).session(session)
\* and the two checks; the first read takes the transaction's snapshot
FindById(p, quantities) ==
  /\ post[p].pc = "loop"
  /\ Len(post[p].orderItems) < MaxItems
  /\ \E x \in Products \cup {UnknownProduct}, quantity \in quantities :
       LET r == [post[p] EXCEPT
                  !.snap = IF @ = NoFun THEN products ELSE @,
                  !.item = [product |-> x, quantity |-> quantity]]
       IN post' = [post EXCEPT ![p] =
            IF x \notin Products THEN PostCatch(r, "ProductNotFound")
            ELSE IF InsufficientStock(TxRead(r, x), quantity)
            THEN PostCatch(r, "InsufficientStock")
            ELSE [r EXCEPT !.pc = "productSave"]]
  /\ UNCHANGED <<products, orders, notifications, events, intents, io, wh, put, get>>

\* an item with a quantity of at least 1
POST_findById(p) == FindById(p, Quantities)

\* an item with any quantity the body can carry, zero and negative included
POST_findByIdAny(p) == FindById(p, AnyQuantities)

\* the write of p's transaction to product x conflicts: x was written by a
\* commit after p's snapshot, or by another transaction that is still open
WriteConflict(p, x) == x \in post[p].stale \/ x \in LockedByOthers(p)

\* a save outside the session: the write reaches the committed document at once
ProductSave_NoSession(r, x, quantity) ==
  [writes |-> Put(r.writes, x, quantity),
   committed |-> [products EXCEPT ![x] = quantity]]

\* product.save({session}): the write stays in the transaction until it
\* commits, and the committed document is left as it is
ProductSave(r, x, quantity) ==
  [writes |-> Put(r.writes, x, quantity), committed |-> products]

\* a write that waits until no other open transaction holds the document
WriteSettles_AfterUnlock(p, x) == x \notin LockedByOthers(p)

\* await product.save({ session }) settles whatever other transactions hold:
\* a write to a document another open transaction has written is refused at
\* once with a write conflict, it is not queued behind that transaction
WriteSettles(p, x) == TRUE

\* product.quantity -= item.quantity; product.save({session}); totalAmount +=
POST_productSave(p) ==
  /\ post[p].pc = "productSave"
  /\ WriteSettles(p, post[p].item.product)
  /\ LET r == post[p]
         x == r.item.product
         quantity == r.item.quantity
     IN /\ post' = [post EXCEPT ![p] =
          IF WriteConflict(p, x)
          THEN PostCatch(r, "WriteConflict")
          ELSE [r EXCEPT !.pc = "loop", !.item = NoItem,
                  !.writes = ProductSave(r, x, Reserve(TxRead(r, x), quantity)).writes,
                  !.totalAmount = @ + LineTotal(ProductPrice[x], quantity),
                  !.orderItems = Append(@, OrderItem(x, quantity))]]
        /\ products' = IF WriteConflict(p, x) THEN products
                       ELSE ProductSave(r, x, Reserve(TxRead(r, x), quantity)).committed
  /\ UNCHANGED <<orders, notifications, events, intents, io, wh, put, get>>

\* a payment intent requested whatever the payment method
NeedsIntent_Always(paymentMethod) == TRUE

\* if (paymentMethod === "stripe")
NeedsIntent(paymentMethod) == paymentMethod = "stripe"

\* the Order schema's validation of the items: quantity at least 1
ValidOrder(items) == \A i \in 1..Len(items) : items[i].quantity >= 1

\* new Order(...); order.save({session}), once the loop is over; a document
\* that fails validation makes save throw
POST_orderSave(p) ==
  /\ post[p].pc = "loop"
  /\ Len(post[p].orderItems) >= 1
  /\ post' = [post EXCEPT ![p] =
       IF ~ValidOrder(@.orderItems) THEN PostCatch(@, "ValidationError")
       ELSE [@ EXCEPT !.pc =
               IF NeedsIntent(post[p].paymentMethod) THEN "intent" ELSE "commit"]]
  /\ UNCHANGED <<products, orders, notifications, events, intents, io, wh, put, get>>

\* createPaymentIntent(totalAmount, orderId); order.stripePaymentIntentId = id;
\* order.save({session})
POST_createPaymentIntent(p) ==
  /\ post[p].pc = "intent"
  /\ \E outcome \in {"ok", "gatewayError", "saveError"} :
       /\ intents' = IF outcome = "gatewayError" THEN intents
                     ELSE Put(intents, p, post[p].totalAmount)
       /\ post' = [post EXCEPT ![p] =
            IF outcome = "ok" THEN [@ EXCEPT !.pc = "commit", !.paymentIntent = TRUE]
            ELSE PostCatch(@, "Internal")]
  /\ UNCHANGED <<products, orders, notifications, events, io, wh, put, get>>

\* the transaction's writes become the committed state
CommitProducts(r) ==
  [x \in Products |-> IF x \in DOMAIN r.writes THEN r.writes[x] ELSE products[x]]

\* session.commitTransaction(); session.endSession(); populate; Product.find
POST_commitTransaction(p) ==
  /\ post[p].pc = "commit"
  /\ \E ok \in BOOLEAN :
       IF ok
       THEN /\ products' = CommitProducts(post[p])
            /\ orders' = Put(orders, p, NewOrder(post[p]))
            /\ post' = [MarkStale(post, DOMAIN post[p].writes) EXCEPT ![p] =
                 [post[p] EXCEPT !.pc = "notifyFarmers", !.tx = "committed",
                    !.snap = NoFun, !.writes = NoFun, !.stale = {},
                    !.farmerIds = FarmerIds(post[p].orderItems)]]
       ELSE /\ post' = [post EXCEPT ![p] = PostCatch(@, "Internal")]
            /\ UNCHANGED <<products, orders, put, get>>
  /\ UNCHANGED <<notifications, events, intents, io, wh, put, get>>

\* an emit that is attempted also when the dispatcher is missing, and throws
Emit_Unguarded(dispatcher, e) ==
  IF dispatcher THEN [thrown |-> FALSE, events |-> events (+) SetToBag({e})]
  ELSE [thrown |-> TRUE, events |-> events]

\* if (io) { io.to(room).emit(name, payload) }: the events handed over, and
\* whether the handler was left by an exception
Emit(dispatcher, e) ==
  IF dispatcher THEN [thrown |-> FALSE, events |-> events (+) SetToBag({e})]
  ELSE [thrown |-> FALSE, events |-> events]

\* for (const farmerId of farmerIds): Notification.create; io.to().emit
POST_notifyFarmer(p) ==
  /\ post[p].pc = "notifyFarmers"
  /\ LET farmerId == Head(post[p].farmerIds)
         rest == Tail(post[p].farmerIds)
     IN \E ok \in BOOLEAN :
          IF ok
          THEN /\ notifications' =
                    notifications (+) SetToBag({Notification(farmerId, "new_order", p, None)})
               /\ LET sent == Emit(io, Event("socket", farmerId, "new_order", p, None))
                  IN /\ events' = sent.events
                     /\ post' = [post EXCEPT ![p] =
                          IF sent.thrown THEN PostCatch(@, "Internal")
                          ELSE [@ EXCEPT !.farmerIds = rest,
                                  !.pc = IF rest = <<>> THEN "notifyCustomer" ELSE @]]
          ELSE /\ post' = [post EXCEPT ![p] = PostCatch(@, "Internal")]
               /\ UNCHANGED <<notifications, events, put, get>>
  /\ UNCHANGED <<products, orders, intents, io, wh, put, get>>

\* Notification.create for the customer; the success response
POST_notifyCustomer(p) ==
  /\ post[p].pc = "notifyCustomer"
  /\ \E ok \in BOOLEAN :
       IF ok
       THEN /\ notifications' =
                 notifications (+) SetToBag({Notification(post[p].user, "order_placed", p, None)})
            /\ post' = [post EXCEPT ![p] = PostDone(@, 200)]
       ELSE /\ post' = [post EXCEPT ![p] = PostCatch(@, "Internal")]
            /\ UNCHANGED notifications
  /\ UNCHANGED <<products, orders, events, intents, io, wh, put, get>>

POST(p) ==
  \/ POST_Begin(p)
  \/ POST_findById(p)
  \/ POST_productSave(p)
  \/ POST_orderSave(p)
  \/ POST_createPaymentIntent(p)
  \/ POST_commitTransaction(p)
  \/ POST_notifyFarmer(p)
  \/ POST_notifyCustomer(p)

\* the same request with items of any quantity
POSTAny(p) ==
  \/ POST_Begin(p)
  \/ POST_findByIdAny(p)
  \/ POST_productSave(p)
  \/ POST_orderSave(p)
  \/ POST_createPaymentIntent(p)
  \/ POST_commitTransaction(p)
  \/ POST_notifyFarmer(p)
  \/ POST_notifyCustomer(p)

\* -------------------------------------------------- POST /api/webhooks/stripe
\* the callback a delivery carries, as far as the handler reads it: whether
\* its signature matches the raw body, event.type and
\* paymentIntent.metadata.orderId (0: none, or not read)
NoEvent == [signatureValid |-> FALSE, type |-> None, orderId |-> 0]

WhIdle ==
  [pc |-> "idle", event |-> NoEvent, orderId |-> 0, idx |-> 0,
   farmerIdsToNotify |-> <<>>, triggered |-> <<>>, saved |-> FALSE, resp |-> 0]

\* the event of a callback that failed verification: its body is not parsed
Unparsed(signatureValid) == [NoEvent EXCEPT !.signatureValid = signatureValid]

\* a processor that takes the callback without verifying it
VerifySignature_Skip(signatureValid) == TRUE

\* stripe.webhooks.constructEvent(rawBody, signature, webhookSecret) returns
VerifySignature(signatureValid) == signatureValid

\* the delivery is answered
WhDone(r, code) == [r EXCEPT !.pc = "done", !.resp = code]

\* a callback processor without the idempotency check
NotYetPaid_Always(order) == TRUE

\* Idempotency check: order.paymentStatus !== "paid"
NotYetPaid(order) == order.paymentStatus # "paid"

\* $inc: { quantity: -item.quantity }
Decrement(available, quantity) == available - quantity

\* a list in place of the Set: a seller of two items is added twice
SetAdd_Duplicates(s, e) == Append(s, e)

\* farmerIdsToNotify.add(farmerId)
SetAdd(s, e) == IF e \in Range(s) THEN s ELSE Append(s, e)

\* constructEvent (signature), the event type, metadata.orderId,
\* Order.findById(orderId).populate(...) and the idempotency check
WH_Begin(w) ==
  /\ wh[w].pc = "idle"
  /\ \A v \in WhIds : v < w => wh[v].pc # "idle"
  /\ \E signatureValid \in BOOLEAN,
        type \in {"payment_intent.succeeded", "payment_intent.created"},
        orderId \in DOMAIN intents \cup {0} :   \* 0: no metadata.orderId
       LET r == [wh[w] EXCEPT !.event = [signatureValid |-> signatureValid,
                                         type |-> type, orderId |-> orderId]]
       IN wh' = [wh EXCEPT ![w] =
            IF ~VerifySignature(signatureValid)
            THEN WhDone([r EXCEPT !.event = Unparsed(signatureValid)], 400)
            ELSE IF type # "payment_intent.succeeded"
            THEN WhDone([r EXCEPT !.event.orderId = 0], 200)
            ELSE IF orderId = 0 THEN WhDone(r, 400)
            ELSE IF orderId \notin DOMAIN orders
            THEN WhDone([r EXCEPT !.orderId = orderId], 404)
            ELSE IF NotYetPaid(orders[orderId])
            THEN [r EXCEPT !.pc = "decrement", !.orderId = orderId, !.idx = 1]
            ELSE WhDone([r EXCEPT !.orderId = orderId], 200)]
  /\ UNCHANGED <<products, orders, notifications, events, intents, io, post, put, get>>

\* for (const item of order.items): Product.findByIdAndUpdate(product._id,
\* {$inc: {quantity: -item.quantity}}); a write outside a transaction waits
\* for an open transaction that has written the document
WH_decrementStock(w) ==
  /\ wh[w].pc = "decrement"
  /\ LET items == orders[wh[w].orderId].items
         item == items[wh[w].idx]
         x == item.product
     IN /\ x \notin LockedByTx
        /\ \E ok \in BOOLEAN :
             IF ok
             THEN /\ products' = [products EXCEPT ![x] = Decrement(@, item.quantity)]
                  /\ post' = MarkStale(post, {x})
                  /\ wh' = [wh EXCEPT ![w].idx = @ + 1,
                       ![w].farmerIdsToNotify = SetAdd(@, ProductFarmer[x]),
                       ![w].pc = IF wh[w].idx = Len(items) THEN "save" ELSE @]
             ELSE /\ wh' = [wh EXCEPT ![w] = WhDone(@, 400)]
                  /\ UNCHANGED <<products, post, put, get>>
  /\ UNCHANGED <<orders, notifications, events, intents, io, put, get>>

\* order.paymentStatus = "paid" ... order.save()
WH_orderSave(w) ==
  /\ wh[w].pc = "save"
  /\ \E ok \in BOOLEAN :
       IF ok
       THEN /\ orders' = [orders EXCEPT ![wh[w].orderId].paymentStatus = "paid"]
            /\ wh' = [wh EXCEPT ![w].pc = "trigger", ![w].saved = TRUE]
       ELSE /\ wh' = [wh EXCEPT ![w] = WhDone(@, 400)]
            /\ UNCHANGED orders
  /\ UNCHANGED <<products, notifications, events, intents, io, post, put, get>>

\* for (const farmerId of farmerIdsToNotify): pusher.trigger(channel, ...)
WH_trigger(w) ==
  /\ wh[w].pc = "trigger"
  /\ LET n == Len(wh[w].triggered) + 1
         farmerId == wh[w].farmerIdsToNotify[n]
     IN \E ok \in BOOLEAN :
          IF ok
          THEN /\ events' = events (+)
                    SetToBag({Event("pusher", farmerId, "new-order", wh[w].orderId, None)})
               /\ wh' = [wh EXCEPT ![w] =
                    IF n = Len(@.farmerIdsToNotify)
                    THEN WhDone([@ EXCEPT !.triggered = Append(@, farmerId)], 200)
                    ELSE [@ EXCEPT !.triggered = Append(@, farmerId)]]
          ELSE /\ wh' = [wh EXCEPT ![w] = WhDone(@, 400)]
               /\ UNCHANGED events
  /\ UNCHANGED <<products, orders, notifications, intents, io, post, put, get>>

WH(w) ==
  \/ WH_Begin(w)
  \/ WH_decrementStock(w)
  \/ WH_orderSave(w)
  \/ WH_trigger(w)

\* ------------------------------------------------ /api/orders/[orderId]
StatusInputs == {"shipped", "cancelled", "returned"}

\* the values the Order schema allows for status
StatusEnum == {"pending", "confirmed", "shipped", "delivered", "cancelled"}
PaymentStatusInputs == {"paid", "refunded"}

PutIdle ==
  [pc |-> "idle", handler |-> None, user |-> None, orderId |-> 0,
   status |-> None, paymentStatus |-> None, loaded |-> None,
   setPaid |-> FALSE, setStatus |-> FALSE, resp |-> 0]

GetNone == [handler |-> None, user |-> None, orderId |-> 0, resp |-> 0,
            paymentIntent |-> FALSE]

\* order.customer._id.toString() === user.userId
IsCustomer(order, user) == order.customer = user

\* order.items.some(item => item.product?.farmer?.toString() === user.userId)
IsFarmerInvolved(order, user) ==
  \E i \in 1..Len(order.items) : ProductFarmer[order.items[i].product] = user

\* the request is answered
PutDone(r, code) == [r EXCEPT !.pc = "done", !.resp = code, !.loaded = None]

\* the checks of PUT without the one of `updated`: a request that sets
\* nothing goes on to order.save()
PutReject_NoOp(order, user, status, paymentStatus) ==
  IF ~IsCustomer(order, user) /\ ~IsFarmerInvolved(order, user) THEN 403
  ELSE IF paymentStatus # None /\ IsCustomer(order, user) /\ paymentStatus # "paid"
  THEN 400
  ELSE IF status # None /\ IsFarmerInvolved(order, user) /\ UserRole[user] # "farmer"
  THEN 403
  ELSE 0

\* the checks of PUT with a buyer's paymentStatus accepted whatever its value
PutReject_AnyPaymentStatus(order, user, status, paymentStatus) ==
  IF ~IsCustomer(order, user) /\ ~IsFarmerInvolved(order, user) THEN 403
  ELSE IF status # None /\ IsFarmerInvolved(order, user) /\ UserRole[user] # "farmer"
  THEN 403
  ELSE IF ~((paymentStatus # None /\ IsCustomer(order, user))
            \/ (status # None /\ IsFarmerInvolved(order, user)))
  THEN 403
  ELSE 0

\* the checks of PUT before order.save(): the answer they return, 0 when
\* none of them returns
PutReject(order, user, status, paymentStatus) ==
  IF ~IsCustomer(order, user) /\ ~IsFarmerInvolved(order, user) THEN 403
  ELSE IF paymentStatus # None /\ IsCustomer(order, user) /\ paymentStatus # "paid"
  THEN 400
  ELSE IF status # None /\ IsFarmerInvolved(order, user) /\ UserRole[user] # "farmer"
  THEN 403
  ELSE IF ~((paymentStatus # None /\ IsCustomer(order, user))
            \/ (status # None /\ IsFarmerInvolved(order, user)))
  THEN 403
  ELSE 0

\* getUserFromRequest, req.json, Order.findById, the authorization checks
\* and the assignments to the loaded document
PUT_Begin(u, orderId) ==
  /\ put[u].pc = "idle"
  /\ \A v \in PutIds : v < u => put[v].pc # "idle"
  /\ \E user \in Users \cup {None},
        status \in StatusInputs \cup {None},
        paymentStatus \in PaymentStatusInputs \cup {None} :
       LET r == [put[u] EXCEPT !.handler = "PUT", !.user = user, !.orderId = orderId,
                               !.status = status, !.paymentStatus = paymentStatus]
       IN put' = [put EXCEPT ![u] =
            IF user = None THEN PutDone(r, 401)
            ELSE IF status = None /\ paymentStatus = None THEN PutDone(r, 400)
            ELSE IF orderId \notin DOMAIN orders THEN PutDone(r, 404)
            ELSE IF PutReject(orders[orderId], user, status, paymentStatus) # 0
            THEN PutDone(r, PutReject(orders[orderId], user, status, paymentStatus))
            ELSE [r EXCEPT !.pc = "save",
                    !.loaded = [paymentStatus |-> orders[orderId].paymentStatus,
                                status |-> orders[orderId].status],
                    !.setPaid = paymentStatus # None /\ IsCustomer(orders[orderId], user),
                    !.setStatus = status # None /\ IsFarmerInvolved(orders[orderId], user)]]
  /\ UNCHANGED <<products, orders, notifications, events, intents, io, post, wh, get>>

\* a save that empties an order when it is cancelled
SaveOrder_EmptyOnCancel(order, r) ==
  [order EXCEPT
     !.paymentStatus = IF r.setPaid /\ r.loaded.paymentStatus # "paid" THEN "paid" ELSE @,
     !.status = IF r.setStatus /\ r.loaded.status # r.status THEN r.status ELSE @,
     !.items = IF r.setStatus /\ r.status = "cancelled" THEN <<>> ELSE @,
     !.totalAmount = IF r.setStatus /\ r.status = "cancelled" THEN 0 ELSE @]

\* a save that writes the whole loaded document back
SaveOrder_WholeDocument(order, r) ==
  [order EXCEPT
     !.paymentStatus = IF r.setPaid THEN "paid" ELSE r.loaded.paymentStatus,
     !.status = IF r.setStatus THEN r.status ELSE r.loaded.status]

\* order.save() writes the paths whose value differs from the loaded one
SaveOrder(order, r) ==
  [order EXCEPT
     !.paymentStatus = IF r.setPaid /\ r.loaded.paymentStatus # "paid" THEN "paid" ELSE @,
     !.status = IF r.setStatus /\ r.loaded.status # r.status THEN r.status ELSE @]

\* the schema's validation of a modified status path
ValidStatus(r) == (r.setStatus /\ r.loaded.status # r.status) => r.status \in StatusEnum

\* an update written without running the schema's validators
SaveOutcomes_NoValidators(r) == BOOLEAN

\* order.save() resolves or throws; it throws when validation fails
SaveOutcomes(r) == IF ValidStatus(r) THEN BOOLEAN ELSE {FALSE}

\* a save that returns a cancelled order's items to the stock
PUT_orderSave_Restock(u) ==
  /\ put[u].pc = "save"
  /\ put[u].handler = "PUT"
  /\ orders' = [orders EXCEPT ![put[u].orderId] = SaveOrder(@, put[u])]
  /\ products' = IF put[u].setStatus /\ put[u].status = "cancelled"
       THEN [x \in Products |-> products[x] + QtyOf(orders[put[u].orderId].items, x)]
       ELSE products
  /\ put' = [put EXCEPT ![u] =
       IF put[u].status # None THEN [@ EXCEPT !.pc = "notify"] ELSE PutDone(@, 200)]
  /\ UNCHANGED <<notifications, events, intents, io, post, wh, get>>

\* await order.save()
PUT_orderSave(u) ==
  /\ put[u].pc = "save"
  /\ put[u].handler = "PUT"
  /\ \E ok \in SaveOutcomes(put[u]) :
       IF ok
       THEN /\ orders' = [orders EXCEPT ![put[u].orderId] = SaveOrder(@, put[u])]
            /\ put' = [put EXCEPT ![u] =
                 IF put[u].status # None THEN [@ EXCEPT !.pc = "notify"]
                 ELSE PutDone(@, 200)]
       ELSE /\ put' = [put EXCEPT ![u] = PutDone(@, 500)]
            /\ UNCHANGED orders
  /\ UNCHANGED <<products, notifications, events, intents, io, post, wh, get>>

\* an event payload built from the status the order was loaded with
LocalStatus_Loaded(r) == r.loaded.status

\* the status the loaded document carries after the handler's assignments
LocalStatus(r) == IF r.setStatus THEN r.status ELSE r.loaded.status

\* if (status): Notification.create for the customer; io.to(customerId).emit
PUT_notify(u) ==
  /\ put[u].pc = "notify"
  /\ put[u].handler = "PUT"
  /\ LET customer == orders[put[u].orderId].customer
     IN \E ok \in BOOLEAN :
          IF ok
          THEN /\ notifications' = notifications (+)
                    SetToBag({Notification(customer, "status", put[u].orderId, put[u].status)})
               /\ LET sent == Emit(io, Event("socket", customer, "order_status_update",
                                              put[u].orderId, LocalStatus(put[u])))
                  IN /\ events' = sent.events
                     /\ put' = [put EXCEPT ![u] =
                          PutDone(@, IF sent.thrown THEN 500 ELSE 200)]
          ELSE /\ put' = [put EXCEPT ![u] = PutDone(@, 500)]
               /\ UNCHANGED <<notifications, events>>
  /\ UNCHANGED <<products, orders, intents, io, post, wh, get>>

PUT(u, orderId) ==
  \/ PUT_Begin(u, orderId)
  \/ PUT_orderSave(u)
  \/ PUT_notify(u)

\* GET: the credentials are returned for an order with an intent, not yet paid
GetPaymentIntent(order) == order.stripePaymentIntentId /\ order.paymentStatus # "paid"

\* GET /api/orders/[orderId]
GET(user, orderId) ==
  /\ get = GetNone
  /\ get' = [handler |-> "GET", user |-> user, orderId |-> orderId,
             resp |-> IF user = None THEN 401
                      ELSE IF orderId \notin DOMAIN orders THEN 404
                      ELSE IF ~IsCustomer(orders[orderId], user)
                              /\ ~IsFarmerInvolved(orders[orderId], user) THEN 403
                      ELSE 200,
             paymentIntent |->
               /\ user # None
               /\ orderId \in DOMAIN orders
               /\ IsCustomer(orders[orderId], user) \/ IsFarmerInvolved(orders[orderId], user)
               /\ GetPaymentIntent(orders[orderId])]
  /\ UNCHANGED <<products, orders, notifications, events, intents, io, post, wh, put>>

\* --------------------------- /api/orders/[orderId], the earlier handlers
\* PUT (earlier): only a farmer passes; status is the only field read
PUTv1_Begin(u, orderId) ==
  /\ put[u].pc = "idle"
  /\ \A v \in PutIds : v < u => put[v].pc # "idle"
  /\ \E user \in Users \cup {None},
        status \in StatusInputs \cup {None} :
       LET r == [put[u] EXCEPT !.handler = "PUTv1", !.user = user,
                               !.orderId = orderId, !.status = status]
       IN put' = [put EXCEPT ![u] =
            IF user = None \/ UserRole[user] # "farmer" THEN PutDone(r, 401)
            ELSE IF status = None THEN PutDone(r, 400)
            ELSE IF orderId \notin DOMAIN orders THEN PutDone(r, 404)
            ELSE IF ~IsFarmerInvolved(orders[orderId], user) THEN PutDone(r, 403)
            ELSE [r EXCEPT !.pc = "save", !.setStatus = TRUE,
                    !.loaded = [paymentStatus |-> orders[orderId].paymentStatus,
                                status |-> orders[orderId].status]]]
  /\ UNCHANGED <<products, orders, notifications, events, intents, io, post, wh, get>>

\* order.status = status; await order.save()
PUTv1_orderSave(u) ==
  /\ put[u].pc = "save"
  /\ put[u].handler = "PUTv1"
  /\ \E ok \in SaveOutcomes(put[u]) :
       IF ok
       THEN /\ orders' = [orders EXCEPT ![put[u].orderId] = SaveOrder(@, put[u])]
            /\ put' = [put EXCEPT ![u].pc = "notify"]
       ELSE /\ put' = [put EXCEPT ![u] = PutDone(@, 500)]
            /\ UNCHANGED orders
  /\ UNCHANGED <<products, notifications, events, intents, io, post, wh, get>>

\* Notification.create for the customer; io.to(customerId).emit
PUTv1_notify(u) ==
  /\ put[u].pc = "notify"
  /\ put[u].handler = "PUTv1"
  /\ LET customer == orders[put[u].orderId].customer
     IN \E ok \in BOOLEAN :
          IF ok
          THEN /\ notifications' = notifications (+)
                    SetToBag({Notification(customer, "status", put[u].orderId, put[u].status)})
               /\ LET sent == Emit(io, Event("socket", customer, "order_status_update",
                                              put[u].orderId, put[u].status))
                  IN /\ events' = sent.events
                     /\ put' = [put EXCEPT ![u] =
                          PutDone(@, IF sent.thrown THEN 500 ELSE 200)]
          ELSE /\ put' = [put EXCEPT ![u] = PutDone(@, 500)]
               /\ UNCHANGED <<notifications, events>>
  /\ UNCHANGED <<products, orders, intents, io, post, wh, get>>

PUTv1(u, orderId) ==
  \/ PUTv1_Begin(u, orderId)
  \/ PUTv1_orderSave(u)
  \/ PUTv1_notify(u)

\* GET (earlier): the credentials are returned whenever the order has an intent
GETv1(user, orderId) ==
  /\ get = GetNone
  /\ get' = [handler |-> "GETv1", user |-> user, orderId |-> orderId,
             resp |-> IF user = None THEN 401
                      ELSE IF orderId \notin DOMAIN orders THEN 404
                      ELSE IF ~IsCustomer(orders[orderId], user)
                              /\ ~IsFarmerInvolved(orders[orderId], user) THEN 403
                      ELSE 200,
             paymentIntent |->
               /\ user # None
               /\ orderId \in DOMAIN orders
               /\ IsCustomer(orders[orderId], user) \/ IsFarmerInvolved(orders[orderId], user)
               /\ orders[orderId].stripePaymentIntentId]
  /\ UNCHANGED <<products, orders, notifications, events, intents, io, post, wh, put>>

\* ------------------------------------------------------------------ system
Init ==
  /\ products = InitQuantity
  /\ orders = NoFun
  /\ notifications = EmptyBag
  /\ events = EmptyBag
  /\ intents = NoFun
  /\ io = TRUE
  /\ post = [p \in PostIds |-> PostIdle]
  /\ wh = [w \in WhIds |-> WhIdle]
  /\ put = [u \in PutIds |-> PutIdle]
  /\ get = GetNone

\* the state after construction with or without the socket.io server set up
InitDispatcher ==
  /\ products = InitQuantity
  /\ orders = NoFun
  /\ notifications = EmptyBag
  /\ events = EmptyBag
  /\ intents = NoFun
  /\ io \in BOOLEAN
  /\ post = [p \in PostIds |-> PostIdle]
  /\ wh = [w \in WhIds |-> WhIdle]
  /\ put = [u \in PutIds |-> PutIdle]
  /\ get = GetNone

\* concurrent order creations and one delivery of a payment callback
Next ==
  \/ \E p \in PostIds : POST(p)
  \/ WH(1)

Spec == Init /\ [][Next]_vars

\* concurrent order creations alone
NextCreate == \E p \in PostIds : POST(p)

SpecCreate == Init /\ [][NextCreate]_vars

\* concurrent order creations, each request taking its next step whenever
\* the operation it awaits can settle
FairCreate == SpecCreate /\ \A p \in PostIds : WF_vars(POST(p))

\* concurrent order creations, one of them with items of any quantity
NextQuantity == POSTAny(1) \/ POST(2)

SpecQuantity == Init /\ [][NextQuantity]_vars

\* one order creation and the deliveries of payment callbacks
NextPayment ==
  \/ POST(1)
  \/ \E w \in WhIds : WH(w)

SpecPayment == Init /\ [][NextPayment]_vars

\* one order creation and the gateway's redeliveries: a delivery is sent
\* once the deliveries before it have been answered
Redeliver(w) ==
  /\ \A v \in WhIds : v < w => wh[v].pc = "done"
  /\ WH_Begin(w)

NextRedelivery ==
  \/ POST(1)
  \/ \E w \in WhIds : \/ Redeliver(w)
                      \/ WH_decrementStock(w)
                      \/ WH_orderSave(w)
                      \/ WH_trigger(w)

SpecRedelivery == Init /\ [][NextRedelivery]_vars

\* one order creation, the reads and the status updates of its order
NextStatus ==
  \/ POST(1)
  \/ \E u \in PutIds : PUT(u, 1)
  \/ \E u \in PutIds : PUTv1(u, 1)
  \/ \E user \in Users \cup {None} : GET(user, 1)
  \/ \E user \in Users \cup {None} : GETv1(user, 1)

SpecStatus == Init /\ [][NextStatus]_vars

\* one order creation, the status updates of its order and a delivery of
\* its payment callback
NextPaid ==
  \/ POST(1)
  \/ \E u \in PutIds : PUT(u, 1)
  \/ \E u \in PutIds : PUTv1(u, 1)
  \/ WH(1)

SpecPaid == Init /\ [][NextPaid]_vars

\* one order creation and its status updates, the dispatcher set up or not
NextDispatcher ==
  \/ POST(1)
  \/ \E u \in PutIds : PUT(u, 1)
  \/ \E u \in PutIds : PUTv1(u, 1)

SpecDispatcher == InitDispatcher /\ [][NextDispatcher]_vars

\* ================================================================ claims
\* the available quantity of product x left by the creation of order o and
\* n confirmations of its payment
StockAfter(o, x, n) == InitQuantity[x] - (1 + n) * QtyOf(orders[o].items, x)

\* the sellers of an order's items
SellersOf(o) == {ProductFarmer[orders[o].items[i].product] : i \in 1..Len(orders[o].items)}

\* the real-time "new sale" event of order o for farmer f
NewSale(o, f) == Event("pusher", f, "new-order", o, None)

\* delivery w took the not-yet-paid branch for its order
Processed(w) == wh[w].idx > 0

\* ---------------------------------------------------------------- C1
\* C1: after any interleaving of order creations and payment callbacks the
\* available quantity of every product is never negative.
C1_StockNeverNegative == \A x \in Products : products[x] >= 0

\* ---------------------------------------------------------------- C2
\* request r is over and asked, as its only reservation, for the whole
\* initial stock of product x
AskedFullStock(r, x) ==
  /\ r.pc = "done"
  /\ r.error # "Internal"
  /\ \/ /\ r.tx = "committed"
        /\ r.orderItems = <<OrderItem(x, InitQuantity[x])>>
     \/ /\ r.tx = "aborted"
        /\ r.orderItems = <<>>
        /\ r.item = [product |-> x, quantity |-> InitQuantity[x]]

\* C2: of two order creations that each request the full stock of the same
\* product, exactly one commits, the other fails with InsufficientStock, and
\* the stock left is the initial stock minus one reservation.
C2_OneWinsOtherInsufficient ==
  \A p, q \in PostIds, x \in Products :
    (p # q /\ AskedFullStock(post[p], x) /\ AskedFullStock(post[q], x)
       /\ post[p].tx = "committed" /\ wh[1].pc = "idle")
    => /\ post[q].tx = "aborted"
       /\ post[q].error = "InsufficientStock"
       /\ post[q].resp = 400
       /\ products[x] = 0

\* ---------------------------------------------------------------- C3
\* the deliveries for order o that took the not-yet-paid branch
ProcessedFor(o) == {w \in WhIds : wh[w].orderId = o /\ Processed(w)}

\* C3: when the payment-success callback of an order is delivered again
\* after a delivery that processed it successfully, the second delivery is
\* acknowledged as success and does nothing: the order went to paid once,
\* each line item's stock was decremented once and each seller was notified
\* once.
C3_SecondDeliveryNoOp ==
  \A w1, w2 \in WhIds :
    (/\ w1 < w2
     /\ wh[w1].pc = "done" /\ wh[w1].resp = 200 /\ Processed(w1)
     /\ wh[w2].pc = "done" /\ wh[w2].orderId = wh[w1].orderId
     /\ ProcessedFor(wh[w1].orderId) \subseteq {w1, w2})
    => LET o == wh[w1].orderId
       IN /\ wh[w2].resp = 200
          /\ ~Processed(w2) /\ ~wh[w2].saved /\ wh[w2].triggered = <<>>
          /\ wh[w1].saved
          /\ orders[o].paymentStatus = "paid"
          /\ \A x \in Products : products[x] = StockAfter(o, x, 1)
          /\ \A f \in SellersOf(o) : CopiesIn(NewSale(o, f), events) = 1

C3_Witness ==
  \E w1, w2 \in WhIds :
    /\ w1 < w2
    /\ wh[w1].pc = "done" /\ wh[w1].resp = 200 /\ Processed(w1)
    /\ wh[w2].pc = "done" /\ wh[w2].orderId = wh[w1].orderId /\ wh[w2].resp = 200

\* ---------------------------------------------------------------- C4
\* C4: when the deliveries of an order's payment-success event are processed
\* concurrently and all are acknowledged, each line item's stock has been
\* decremented exactly once and each seller notified exactly once.
C4_ConcurrentExactlyOnce ==
  \A o \in DOMAIN orders :
    LET D == {w \in WhIds : wh[w].orderId = o}
    IN (D # {} /\ \A w \in D : wh[w].pc = "done" /\ wh[w].resp = 200)
       => /\ \A x \in Products : products[x] = StockAfter(o, x, 1)
          /\ \A f \in SellersOf(o) : CopiesIn(NewSale(o, f), events) = 1

\* ---------------------------------------------------------------- C5
\* a step taken by request p itself
StepOf(p) == [post[p] EXCEPT !.stale = {}] # [post'[p] EXCEPT !.stale = {}]

NotificationsOf(o) == {n \in BagToSet(notifications) : n.order = o}

C5_Inv ==
  \A p \in PostIds :
    (post[p].pc = "done" /\ post[p].error \in {"ProductNotFound", "InsufficientStock"})
    => /\ post[p].resp = 400
       /\ post[p].tx = "aborted"
       /\ p \notin DOMAIN orders
       /\ NotificationsOf(p) = {}

C5_Act ==
  \A p \in PostIds :
    (StepOf(p) /\ post'[p].tx # "committed")
    => UNCHANGED <<products, orders, notifications>>

\* C5: an order creation that fails on an item (product not found, or more
\* requested than available), also after earlier items of the request were
\* reserved, leaves every product's stock as it was: no step of the request
\* changes the committed stock, no order is persisted and no notification is
\* written.
C5_FailedCreationLeavesNoTrace == []C5_Inv /\ [][C5_Act]_vars

C5_Witness ==
  \E p \in PostIds :
    /\ post[p].pc = "done"
    /\ post[p].error = "InsufficientStock"
    /\ Len(post[p].orderItems) >= 1

\* ---------------------------------------------------------------- C6
RECURSIVE SumLines(_)
SumLines(items) ==
  IF items = <<>> THEN 0
  ELSE Head(items).price * Head(items).quantity + SumLines(Tail(items))

C6_Inv ==
  \A o \in DOMAIN orders :
    /\ orders[o].totalAmount = SumLines(orders[o].items)
    /\ \A i \in 1..Len(orders[o].items) :
         orders[o].items[i].price = ProductPrice[orders[o].items[i].product]

C6_Act ==
  \A p \in PostIds :
    (post[p].tx = "active" /\ post'[p].tx = "committed")
    => /\ p \in DOMAIN orders'
       /\ \A x \in Products :
            products'[x] = products[x] - QtyOf(orders'[p].items, x)

\* C6: the totalAmount of every persisted order is the sum over its items of
\* the captured unit price times the quantity, and the commit of an order
\* reduces the stock of each product by exactly the quantity ordered of it.
C6_TotalAndStock == []C6_Inv /\ [][C6_Act]_vars

C6_Witness ==
  \E o \in DOMAIN orders :
    /\ Len(orders[o].items) = 2
    /\ orders[o].items[1].quantity = 2
    /\ orders[o].items[1].product # orders[o].items[2].product

\* ---------------------------------------------------------------- C7
\* an authenticated user who is neither the customer of order o nor the
\* seller of a product in it
Stranger(user, o) ==
  /\ user # None
  /\ o \in DOMAIN orders
  /\ ~IsCustomer(orders[o], user)
  /\ ~IsFarmerInvolved(orders[o], user)

C7_Act ==
  /\ \A u \in PutIds :
       (/\ put[u].pc = "idle" /\ put'[u].pc # "idle"
        /\ Stranger(put'[u].user, put'[u].orderId)
        /\ put'[u].status # None \/ put'[u].paymentStatus # None)
       => /\ put'[u].pc = "done" /\ put'[u].resp = 403
          /\ UNCHANGED <<orders, products, notifications, events>>
  /\ (get = GetNone /\ get' # GetNone /\ Stranger(get'.user, get'.orderId))
     => /\ get'.resp = 403
        /\ UNCHANGED <<orders, products, notifications, events>>

\* C7: a GET or a PUT (carrying a field to update) on an existing order by an
\* authenticated user who is neither its customer nor a seller of one of its
\* products is answered Forbidden (403), and the request changes nothing.
C7_StrangersForbidden == [][C7_Act]_vars

\* ---------------------------------------------------------------- C8
\* the durable record a payment confirmation would write for seller f
SaleRecord(o, f) == Notification(f, "new_sale", o, None)

C8_Inv ==
  \A w \in WhIds :
    (wh[w].pc = "done" /\ wh[w].resp = 200 /\ Processed(w))
    => /\ Range(wh[w].triggered) = SellersOf(wh[w].orderId)
       /\ Len(wh[w].triggered) = Cardinality(SellersOf(wh[w].orderId))

C8_Act ==
  \A w \in WhIds :
    (wh'[w] # wh[w])
    => /\ notifications' = notifications
       /\ \/ events' = events /\ wh'[w].triggered = wh[w].triggered
          \/ \E f \in Users :
               /\ events' = events (+) SetToBag({NewSale(wh[w].orderId, f)})
               /\ wh'[w].triggered = Append(wh[w].triggered, f)

C9_SellersNotifiedAfterRedelivery ==
  \A o \in DOMAIN orders :
    (/\ orders[o].paymentStatus = "paid"
     /\ \E w \in WhIds : wh[w].orderId = o /\ wh[w].saved
     /\ \E w \in WhIds : wh[w].orderId = o /\ wh[w].pc = "done" /\ wh[w].resp = 200
     /\ \A w \in WhIds : wh[w].pc \in {"idle", "done"})
    => \A f \in SellersOf(o) :
         \/ CopiesIn(NewSale(o, f), events) >= 1
         \/ CopiesIn(SaleRecord(o, f), notifications) >= 1

\* --------------------------------------------------------------- C10
\* the delivery reached order.save() and failed there
FailedAtSave(w) ==
  /\ wh[w].pc = "done" /\ wh[w].resp = 400
  /\ wh[w].orderId \in DOMAIN orders
  /\ wh[w].idx > Len(orders[wh[w].orderId].items)
  /\ ~wh[w].saved

\* C10: when a delivery fails at persisting the order after the stock
\* decrements, and the redelivery that follows is acknowledged, the order is
\* paid and each line item's stock has been decremented exactly once.
C10_RedeliveryAfterFailedSave ==
  \A w1, w2 \in WhIds :
    (/\ w1 < w2
     /\ FailedAtSave(w1)
     /\ wh[w2].pc = "done" /\ wh[w2].resp = 200 /\ wh[w2].orderId = wh[w1].orderId
     /\ ProcessedFor(wh[w1].orderId) \subseteq {w1, w2})
    => /\ orders[wh[w1].orderId].paymentStatus = "paid"
       /\ \A x \in Products : products[x] = StockAfter(wh[w1].orderId, x, 1)

\* --------------------------------------------------------------- C11
\* C11: a creation attempt that ended with its transaction aborted has left
\* no payment intent at the gateway for its order.
C11_NoIntentForAbortedCreation ==
  \A p \in PostIds :
    (post[p].pc = "done" /\ post[p].tx = "aborted") => p \notin DOMAIN intents

\* --------------------------------------------------------------- C12
\* user may set the fulfillment status of order o
SellerOf(user, o) ==
  /\ user # None
  /\ IsFarmerInvolved(orders[o], user)
  /\ UserRole[user] = "farmer"

\* a change of a stored fulfillment status is the save of a request sent by
\* a seller of the order holding the farmer role
C12_StatusWrittenBySeller ==
  \A o \in DOMAIN orders :
    (orders'[o].status # orders[o].status)
    => \E u \in PutIds :
         /\ put[u].pc = "save" /\ put'[u].pc # "save"
         /\ put[u].orderId = o
         /\ SellerOf(put[u].user, o)

\* a request of an authenticated user carrying only a status, on an existing
\* order the user is no seller of, is answered Forbidden
C12_OthersForbidden ==
  \A u \in PutIds :
    (/\ put[u].pc = "idle" /\ put'[u].pc # "idle"
     /\ put'[u].user # None
     /\ put'[u].orderId \in DOMAIN orders
     /\ put'[u].status # None /\ put'[u].paymentStatus = None
     /\ ~SellerOf(put'[u].user, put'[u].orderId))
    => put'[u].pc = "done" /\ put'[u].resp = 403

\* C12: a status update changes the stored fulfillment status only when the
\* acting user is a seller of a product of the order and holds the farmer
\* role; otherwise the status is unchanged and a request carrying only a
\* status is answered Forbidden (403).
C12_OnlySellerSetsStatus ==
  [][C12_StatusWrittenBySeller /\ C12_OthersForbidden]_vars

\* the first half alone: it holds of both handlers
C12_StatusWriteOnly == [][C12_StatusWrittenBySeller]_vars

\* --------------------------------------------------------------- C13
\* a change of a stored payment status by a status update is the save of a
\* request of the order's buyer asking for paid
C13_PaidWrittenByBuyer ==
  \A o \in DOMAIN orders :
    (orders'[o].paymentStatus # orders[o].paymentStatus /\ wh' = wh)
    => \E u \in PutIds :
         /\ put[u].pc = "save" /\ put'[u].pc # "save"
         /\ put[u].handler = "PUT" /\ put[u].orderId = o
         /\ IsCustomer(orders[o], put[u].user)
         /\ put[u].paymentStatus = "paid"
         /\ orders'[o].paymentStatus = "paid"

\* request u arrives at the coordinator, on an existing order, from an
\* authenticated user, carrying a payment status other than paid
BadPaymentStatusArrives(u) ==
  /\ put[u].pc = "idle" /\ put'[u].pc # "idle"
  /\ put'[u].handler = "PUT"
  /\ put'[u].user # None
  /\ put'[u].orderId \in DOMAIN orders
  /\ put'[u].paymentStatus \notin {None, "paid"}

InvalidPaymentStatus(u) ==
  /\ put'[u].pc = "done" /\ put'[u].resp = 400
  /\ UNCHANGED <<orders, products, notifications, events>>

\* C13 (as stated): the payment status changes only for the buyer asking for
\* paid, and every request carrying a payment status other than paid is
\* rejected as InvalidPaymentStatus (400) and changes nothing, whoever sends
\* it and whatever other field it carries.
C13_AnyBadPaymentStatusRejected ==
  [][/\ C13_PaidWrittenByBuyer
     /\ \A u \in PutIds : BadPaymentStatusArrives(u) => InvalidPaymentStatus(u)]_vars

\* C13 (amended): the payment status changes only for the buyer asking for
\* paid, and every request of the order's buyer carrying a payment status
\* other than paid is rejected as InvalidPaymentStatus (400) and changes
\* nothing, whatever other field it carries.
C13_BuyerBadPaymentStatusRejected ==
  [][/\ C13_PaidWrittenByBuyer
     /\ \A u \in PutIds :
          (/\ BadPaymentStatusArrives(u)
           /\ IsCustomer(orders[put'[u].orderId], put'[u].user))
          => InvalidPaymentStatus(u)]_vars

C13_Witness ==
  \E u \in PutIds :
    /\ put[u].pc = "done" /\ put[u].resp = 400 /\ put[u].handler = "PUT"
    /\ put[u].orderId \in DOMAIN orders
    /\ IsCustomer(orders[put[u].orderId], put[u].user)
    /\ IsFarmerInvolved(orders[put[u].orderId], put[u].user)
    /\ put[u].paymentStatus = "refunded" /\ put[u].status # None

\* --------------------------------------------------------------- C14
\* C14: the status coordinator writes a buyer Notification or emits
\* order_status_update only for a request that set the order's fulfillment
\* status; a buyer confirming payment gets no notification, whatever else
\* the request body carries.
C14_NotifyOnlyOnStatusChange ==
  [][\A u \in PutIds :
       (/\ put[u].handler = "PUT" /\ put'[u] # put[u]
        /\ notifications' # notifications \/ events' # events)
       => put[u].setStatus]_vars

\* --------------------------------------------------------------- C15
\* the number of Notification documents about order o
NotificationCount(o) ==
  BagCardinality([n \in NotificationsOf(o) |-> CopiesIn(n, notifications)])

C15_Inv ==
  \A p \in PostIds :
    (post[p].pc = "done" /\ post[p].resp = 200)
    => /\ \A f \in SellersOf(p) :
            CopiesIn(Notification(f, "new_order", p, None), notifications) = 1
       /\ CopiesIn(Notification(post[p].user, "order_placed", p, None), notifications) = 1
       /\ NotificationCount(p) = Cardinality(SellersOf(p)) + 1

C15_Act ==
  \A p \in PostIds :
    (\E n \in BagToSet(notifications') :
       n.order = p /\ CopiesIn(n, notifications') # CopiesIn(n, notifications))
    => post[p].tx = "committed" /\ p \in DOMAIN orders

\* C15: after a successful order creation exactly one Notification has been
\* written for each distinct seller of the order's products (one for a seller
\* of several items), exactly one for the buyer and no other, and each of
\* them was written after the transaction had committed.
C15_OneNotificationPerParty == []C15_Inv /\ [][C15_Act]_vars

C15_Witness ==
  \E p \in PostIds :
    /\ post[p].pc = "done" /\ post[p].resp = 200
    /\ Len(orders[p].items) = 2
    /\ orders[p].items[1].product # orders[p].items[2].product
    /\ Cardinality(SellersOf(p)) = 1

\* --------------------------------------------------------------- C16
\* C16: the payment status of an order only ever changes from a value other
\* than paid to paid: once an order is paid, no callback, status
\* update or other operation gives it another value.
C16_PaidIsFinal ==
  [][\A o \in DOMAIN orders :
       (orders'[o].paymentStatus # orders[o].paymentStatus)
       => /\ orders[o].paymentStatus # "paid"
          /\ orders'[o].paymentStatus = "paid"]_vars

C16_Witness ==
  \E u \in PutIds :
    /\ orders # NoFun
    /\ wh[1].saved /\ wh[1].pc = "done"
    /\ put[u].pc = "done" /\ put[u].resp = 200 /\ put[u].setStatus
    /\ orders[put[u].orderId].status = put[u].status
    /\ orders[put[u].orderId].paymentStatus = "paid"

\* --------------------------------------------------------------- C17
\* C17: a creation whose transaction has committed keeps its order and is
\* answered with success, also when writing a notification or dispatching a
\* real-time event failed after the commit.
C17_NotifyFailureNotFatal ==
  \A p \in PostIds :
    (post[p].pc = "done" /\ post[p].tx = "committed")
    => p \in DOMAIN orders /\ post[p].resp = 200

\* --------------------------------------------------------------- C18
\* the three rejections of a callback
BadSignature(e) == ~e.signatureValid
MissingOrderId(e) ==
  e.signatureValid /\ e.type = "payment_intent.succeeded" /\ e.orderId = 0
UnknownOrder(e) ==
  /\ e.signatureValid /\ e.type = "payment_intent.succeeded"
  /\ e.orderId # 0 /\ e.orderId \notin DOMAIN orders

\* a delivery is rejected in the step that takes it; a callback that fails
\* verification or names no order is rejected with no order looked up
C18_Act ==
  \A w \in WhIds :
    (wh[w].pc = "idle" /\ wh'[w].pc # "idle")
    => LET e == wh'[w].event
       IN /\ BadSignature(e) =>
               wh'[w].pc = "done" /\ wh'[w].resp = 400 /\ wh'[w].orderId = 0
          /\ MissingOrderId(e) =>
               wh'[w].pc = "done" /\ wh'[w].resp = 400 /\ wh'[w].orderId = 0
          /\ UnknownOrder(e) => wh'[w].pc = "done" /\ wh'[w].resp = 404
          /\ (BadSignature(e) \/ MissingOrderId(e) \/ UnknownOrder(e))
             => UNCHANGED <<orders, products, notifications, events>>

\* a delivery whose callback failed verification is never processed
C18_Inv ==
  \A w \in WhIds :
    (wh[w].pc # "idle" /\ BadSignature(wh[w].event))
    => /\ wh[w].pc = "done" /\ wh[w].resp = 400
       /\ ~Processed(w) /\ ~wh[w].saved /\ wh[w].triggered = <<>>

\* C18: a payment callback that fails signature verification, carries no
\* order identifier or names an order that does not exist is rejected (400,
\* 400, 404) and leaves orders, stock and notifications unchanged; a callback
\* that fails verification is rejected whatever the stored state is, with no
\* order looked up.
C18_BadCallbackRejected == []C18_Inv /\ [][C18_Act]_vars

C18_Witness ==
  \E w \in WhIds :
    /\ wh[w].pc = "done" /\ wh[w].resp = 400
    /\ BadSignature(wh[w].event)
    /\ \E o \in DOMAIN orders \cap DOMAIN intents : NotYetPaid(orders[o])

\* --------------------------------------------------------------- C19
\* C19: a creation request of an authenticated user with a missing or empty
\* item sequence is rejected with EmptyOrder, and one with items but without
\* a shipping address with MissingShippingAddress (both 400); the rejection
\* leaves stock, orders, payment intents and notifications as they were and
\* the request's transaction is aborted.
C19_InvalidRequestRejected ==
  [][\A p \in PostIds :
       (post[p].pc = "idle" /\ post'[p].pc # "idle" /\ post'[p].user # None)
       => LET b == post'[p].body
              rejected(error) ==
                /\ post'[p].pc = "done" /\ post'[p].resp = 400
                /\ post'[p].error = error /\ post'[p].tx = "aborted"
                /\ UNCHANGED <<products, orders, intents, notifications, events>>
          IN /\ b.items # "items" => rejected("EmptyOrder")
             /\ (b.items = "items" /\ ~b.shippingAddress)
                => rejected("MissingShippingAddress")]_vars

C19_Witness ==
  \E p \in PostIds :
    /\ post[p].pc = "done" /\ post[p].user # None /\ post[p].resp = 400
    /\ post[p].body = [items |-> "items", shippingAddress |-> FALSE]
    /\ post[p].error = "MissingShippingAddress"

\* --------------------------------------------------------------- C20
\* request u arrives at the coordinator from a party to the order and
\* carries a field, but none the user may change
NothingEntitled(u) ==
  LET r == put'[u]
  IN /\ put[u].pc = "idle" /\ r.pc # "idle" /\ r.handler = "PUT"
     /\ r.user # None /\ r.orderId \in DOMAIN orders
     /\ IsCustomer(orders[r.orderId], r.user) \/ IsFarmerInvolved(orders[r.orderId], r.user)
     /\ r.status # None \/ r.paymentStatus # None
     /\ ~(r.paymentStatus # None /\ IsCustomer(orders[r.orderId], r.user))
     /\ ~(r.status # None /\ IsFarmerInvolved(orders[r.orderId], r.user))

\* C20: a status update from a party to the order that carries no field the
\* acting user may change (a buyer sending only a fulfillment status, a
\* seller sending only a payment status) is answered Forbidden (403) and
\* leaves the order and the notifications unchanged.
C20_NothingEntitledForbidden ==
  [][\A u \in PutIds :
       NothingEntitled(u)
       => /\ put'[u].pc = "done" /\ put'[u].resp = 403
          /\ UNCHANGED <<orders, notifications, events>>]_vars

C20_Witness ==
  \E u \in PutIds :
    /\ put[u].pc = "done" /\ put[u].resp = 403 /\ put[u].handler = "PUT"
    /\ put[u].orderId \in DOMAIN orders
    /\ IsCustomer(orders[put[u].orderId], put[u].user)
    /\ ~IsFarmerInvolved(orders[put[u].orderId], put[u].user)
    /\ put[u].status # None /\ put[u].paymentStatus = None

\* --------------------------------------------------------------- C21
\* the buyer's Notification and real-time event of a status update to s
StatusRecord(o, s) == Notification(orders[o].customer, "status", o, s)
StatusEvent(o, s) == Event("socket", orders[o].customer, "order_status_update", o, s)

\* the save of a request that sets the status stores it (the path is left
\* alone when the loaded document already carried that status)
C21_Persisted ==
  \A u \in PutIds :
    (put[u].pc = "save" /\ put'[u].pc = "notify" /\ put[u].setStatus)
    => \/ orders'[put[u].orderId].status = put[u].status
       \/ put[u].loaded.status = put[u].status /\ orders' = orders

\* the step that answers it with success, after the save, writes one
\* Notification for the buyer and emits one event, both carrying the status
C21_Notified ==
  \A u \in PutIds :
    (put[u].pc = "notify" /\ put[u].setStatus
     /\ put'[u].pc = "done" /\ put'[u].resp = 200)
    => /\ notifications' =
            notifications (+) SetToBag({StatusRecord(put[u].orderId, put[u].status)})
       /\ io => events' =
            events (+) SetToBag({StatusEvent(put[u].orderId, put[u].status)})

\* a request that sets the status is answered with success by that step only
C21_Inv ==
  \A u \in PutIds :
    (put[u].pc = "done" /\ put[u].resp = 200 /\ put[u].setStatus)
    => BagIn(StatusRecord(put[u].orderId, put[u].status), notifications)

\* C21: when a seller of an order sets its fulfillment status to s and the
\* request succeeds, the order is persisted with status s, then exactly one
\* Notification for the order's buyer referencing s is written and one
\* real-time event carrying s is emitted on the buyer's channel.
C21_StatusUpdateNotifiesBuyer ==
  []C21_Inv /\ [][C21_Persisted /\ C21_Notified]_vars

C21_Witness ==
  \E u \in PutIds :
    /\ put[u].pc = "done" /\ put[u].resp = 200 /\ put[u].setStatus
    /\ put[u].handler = "PUT"
    /\ orders[put[u].orderId].status = put[u].status
    /\ CopiesIn(StatusRecord(put[u].orderId, put[u].status), notifications) = 1
    /\ CopiesIn(StatusEvent(put[u].orderId, put[u].status), events) = 1

\* --------------------------------------------------------------- C22
\* an intent is requested for stripe requests only; a committed order has one
\* exactly when it is paid by stripe, for its total and under its own id, and
\* then the order stores the intent's id
C22_Inv ==
  /\ \A p \in DOMAIN intents : post[p].paymentMethod = "stripe"
  /\ \A o \in DOMAIN orders :
       /\ o \in DOMAIN intents <=> orders[o].paymentMethod = "stripe"
       /\ orders[o].stripePaymentIntentId <=> orders[o].paymentMethod = "stripe"
       /\ o \in DOMAIN intents => intents[o] = orders[o].totalAmount

\* no step changes a requested intent or the intent id a stored order carries
C22_Act ==
  /\ \A p \in DOMAIN intents : p \in DOMAIN intents' /\ intents'[p] = intents[p]
  /\ \A o \in DOMAIN orders :
       orders'[o].stripePaymentIntentId = orders[o].stripePaymentIntentId

\* C22: a payment intent is requested from the gateway exactly when the
\* order's paymentMethod is stripe, for exactly the order's totalAmount and
\* tagged with the order's id; the intent id is stored on the order once and
\* no later operation changes it.
C22_IntentForStripeOnly == []C22_Inv /\ [][C22_Act]_vars

C22_Witness ==
  /\ 1 \in DOMAIN orders /\ orders[1].paymentMethod = "stripe"
  /\ orders[1].stripePaymentIntentId /\ intents[1] = orders[1].totalAmount
  /\ wh[1].pc = "done" /\ wh[1].saved /\ wh[1].orderId = 1
  /\ \E u \in PutIds : put[u].pc = "done" /\ put[u].resp = 200 /\ put[u].orderId = 1

\* --------------------------------------------------------------- C23
\* the buyer's own confirmation of order o (paymentStatus paid) has succeeded
BuyerConfirmed(o) ==
  \E u \in PutIds :
    /\ put[u].pc = "done" /\ put[u].resp = 200
    /\ put[u].orderId = o /\ put[u].setPaid

\* the gateway's callback for order o has been acknowledged as success
CallbackAcknowledged(o) ==
  \E w \in WhIds : wh[w].pc = "done" /\ wh[w].resp = 200 /\ wh[w].orderId = o

\* C23: for an order paid through the gateway, once both the buyer's own
\* paymentStatus = paid request and the gateway's callback have been handled,
\* in whichever order they arrived, the callback's stock decrement has been
\* applied and every seller has been sent the sale event once.
C23_ArrivalOrderIrrelevant ==
  \A o \in DOMAIN orders :
    (orders[o].paymentMethod = "stripe" /\ BuyerConfirmed(o) /\ CallbackAcknowledged(o))
    => /\ ProcessedFor(o) # {}
       /\ \A f \in SellersOf(o) : CopiesIn(NewSale(o, f), events) = 1

\* --------------------------------------------------------------- C24
\* every item of every persisted order has a quantity of at least 1
C24_Inv ==
  \A o \in DOMAIN orders :
    \A i \in 1..Len(orders[o].items) : orders[o].items[i].quantity >= 1

\* no step of a creation raises the stored quantity of a product
C24_Act == \A x \in Products : products'[x] <= products[x]

RECURSIVE Taken(_, _)
Taken(O, x) ==
  IF O = {} THEN 0
  ELSE LET o == CHOOSE o \in O : TRUE
       IN QtyOf(orders[o].items, x)
            * (IF orders[o].paymentStatus = "paid" THEN 2 ELSE 1)
          + Taken(O \ {o}, x)

\* no delivery of a callback is between its first and its last step
NoDeliveryInProgress == \A w \in WhIds : wh[w].pc \in {"idle", "done"}

\* C25: whenever no callback is being handled, every product's stored stock
\* is its initial stock minus the quantities of that product in all
\* committed orders, minus once more the quantities in every order whose
\* payment the callback has confirmed.
C25_StockAccounting ==
  NoDeliveryInProgress
  => \A x \in Products : products[x] = InitQuantity[x] - Taken(DOMAIN orders, x)

\* --------------------------------------------------------------- C26
\* the stored fulfillment status of every order is one of the five values
C26_Inv == \A o \in DOMAIN orders : orders[o].status \in StatusEnum

\* no step of a request that carries another value changes a stored status
C26_Act ==
  \A u \in PutIds :
    (put[u].pc # "idle" /\ put[u].pc # "done" /\ put[u].status \notin StatusEnum
     /\ put'[u] # put[u])
    => \A o \in DOMAIN orders : orders'[o].status = orders[o].status

C27_OrderLinesImmutable ==
  [][\A o \in DOMAIN orders :
       /\ o \in DOMAIN orders'
       /\ orders'[o].totalAmount = orders[o].totalAmount
       /\ orders'[o].items = orders[o].items]_vars

\* an order whose callback decremented the stock and stored paid and whose
\* seller cancelled it still carries the lines and the total it was created with
C27_Witness ==
  /\ 1 \in DOMAIN orders
  /\ wh[1].pc = "done" /\ wh[1].saved /\ Processed(1)
  /\ \E u \in PutIds :
       /\ put[u].pc = "done" /\ put[u].resp = 200 /\ put[u].setStatus
       /\ put[u].status = "cancelled"
  /\ orders[1].status = "cancelled" /\ orders[1].paymentStatus = "paid"
  /\ orders[1].items = post[1].orderItems
  /\ orders[1].totalAmount = SumLines(orders[1].items)
  /\ \E x \in Products : products[x] < InitQuantity[x]

\* --------------------------------------------------------------- C28
\* request p has begun and has not answered
InProgress(p) == post[p].pc \notin {"idle", "done"}

\* request p has answered, its transaction committed or aborted
Terminated(p) == post[p].pc = "done" /\ post[p].tx \in {"committed", "aborted"}

\* a request in progress can take its next step, whatever the others hold
C28_NoWait == \A p \in PostIds : InProgress(p) => ENABLED <<POST(p)>>_vars

\* C28: every order creation request that has begun eventually answers with
\* its transaction committed or aborted, also when two concurrent requests
\* reserve overlapping products in opposite item order: at no point does a
\* request wait for another, and no request stays in progress forever.
C28_CreationTerminates ==
  /\ []C28_NoWait
  /\ \A p \in PostIds : InProgress(p) ~> Terminated(p)

\* two requests reserved p1 and p2 in opposite item order, each while the
\* other's transaction was open, and both have answered
C28_Witness ==
  /\ \A p \in PostIds : Terminated(p)
  /\ Len(post[1].orderItems) >= 1 /\ post[1].orderItems[1].product = "p1"
  /\ post[1].tx = "committed" /\ Len(post[1].orderItems) = 2
  /\ post[1].orderItems[2].product = "p2"
  /\ Len(post[2].orderItems) = 1 /\ post[2].orderItems[1].product = "p2"
  /\ post[2].item.product = "p1" /\ post[2].error = "WriteConflict"

\* --------------------------------------------------------------- C29
\* the Notification a creation writes for the seller it notifies next
SaleNotice(p) == Notification(Head(post[p].farmerIds), "new_order", p, None)

\* a step of a status update after its save: either the buyer's Notification
\* is written and the request succeeds, or the write fails and it ends as 500
StatusNotifyStep(u) ==
  \/ /\ notifications' =
          notifications (+) SetToBag({StatusRecord(put[u].orderId, put[u].status)})
     /\ put'[u].pc = "done" /\ put'[u].resp = 200
  \/ /\ notifications' = notifications
     /\ put'[u].pc = "done" /\ put'[u].resp = 500

\* a step of a creation that notifies a seller: either the Notification is
\* written and the request goes on, or the write fails and it ends as 500
SaleNotifyStep(p) ==
  \/ /\ notifications' = notifications (+) SetToBag({SaleNotice(p)})
     /\ post'[p].pc \in {"notifyFarmers", "notifyCustomer"}
     /\ post'[p].farmerIds = Tail(post[p].farmerIds)
  \/ /\ notifications' = notifications
     /\ post'[p].pc = "done" /\ post'[p].resp = 500

\* the steps that read the dispatcher have the outcomes above and touch no
\* order and no stock; an event is emitted only with a dispatcher
C29_Act ==
  /\ \A u \in PutIds :
       (put[u].pc = "notify" /\ put'[u] # put[u])
       => StatusNotifyStep(u) /\ UNCHANGED <<products, orders, intents>>
  /\ \A p \in PostIds :
       (post[p].pc = "notifyFarmers" /\ StepOf(p))
       => SaleNotifyStep(p) /\ UNCHANGED <<products, orders, intents>>
  /\ events' # events => io

\* with or without a dispatcher, the successful outcome of such a step is
\* possible
C29_Inv ==
  /\ \A u \in PutIds :
       put[u].pc = "notify"
       => ENABLED (/\ PUT_notify(u) \/ PUTv1_notify(u)
                   /\ put'[u].resp = 200)
  /\ \A p \in PostIds :
       post[p].pc = "notifyFarmers"
       => ENABLED (POST_notifyFarmer(p) /\ post'[p].pc # "done")

\* C29: real-time dispatch is purely additive. Whether or not the dispatcher
\* is initialised, order creation and status update take the same steps on
\* orders, stock and Notifications and reach the same success response; the
\* dispatcher decides only whether events are emitted.
C29_DispatchIsAdditive == []C29_Inv /\ [][C29_Act]_vars

\* without a dispatcher a creation and a status update of its order have both
\* succeeded, their Notifications written and no event emitted
C29_Witness ==
  /\ ~io
  /\ post[1].pc = "done" /\ post[1].resp = 200 /\ 1 \in DOMAIN orders
  /\ \E u \in PutIds :
       /\ put[u].pc = "done" /\ put[u].resp = 200 /\ put[u].setStatus
       /\ BagIn(StatusRecord(1, put[u].status), notifications)
  /\ \A f \in SellersOf(1) : BagIn(Notification(f, "new_order", 1, None), notifications)
  /\ events = EmptyBag

\* --------------------------------------------------------------- C30
\* C30: no step of a status update, an update to cancelled included, changes
\* the stored quantity of any product.
C30_StatusUpdateKeepsStock ==
  [][\A u \in PutIds : put'[u] # put[u] => products' = products]_vars

\* a seller has cancelled an order and the stock its creation reserved is
\* still taken
C30_Witness ==
  \E u \in PutIds :
    /\ put[u].pc = "done" /\ put[u].resp = 200
    /\ put[u].setStatus /\ put[u].status = "cancelled"
    /\ orders[put[u].orderId].status = "cancelled"
    /\ \A x \in Products : products[x] = StockAfter(put[u].orderId, x, 0)
    /\ \E x \in Products : products[x] < InitQuantity[x]

\* --------------------------------------------------------------- C31
\* the read that is answered in this step hands out payment-intent credentials
CredentialsReturned == get = GetNone /\ get' # GetNone /\ get'.paymentIntent

\* C31: a read of an order returns payment-intent client credentials only to
\* the order's buyer or to a seller of one of its items, and never for an
\* order whose payment status is paid when it is read.
C31_CredentialsOnlyWhileUnpaid ==
  [][CredentialsReturned
     => /\ get'.orderId \in DOMAIN orders
        /\ \/ IsCustomer(orders[get'.orderId], get'.user)
           \/ IsFarmerInvolved(orders[get'.orderId], get'.user)
        /\ orders[get'.orderId].paymentStatus # "paid"]_vars

====
